---- MODULE Spec2Model ----
(***************************************************************************)
(* A model of src/app.js: the quiz viewer's navigation stack, its view     *)
(* router, the quiz session closures created by renderQuiz and the event   *)
(* listeners each render attaches to the page.                             *)
(*                                                                         *)
(* Every handler of the program is a pure operator on the record of the    *)
(* application's state (App); an action of the model is one dispatched     *)
(* event: the handler runs to completion, and the variables take the       *)
(* record it returns.                                                      *)
(***************************************************************************)
EXTENDS Integers, Sequences, FiniteSets, TLC

VARIABLES
    data,             \* app.data: null, or the document loaded (by name)
    navigationStack,  \* app.navigationStack
    view,             \* the screen app.appContainer shows
    listeners,        \* the event listeners attached to the elements on show
    disabled,         \* the controls on show that carry the disabled attribute
    sessions,         \* the renderQuiz closures some listener still refers to
    results,          \* what the results screen shows (score and review)
    uncaught,         \* the handler of the last event ended in an uncaught TypeError
    pc,               \* position of the async init(): "fetch" or "done";
                      \* "backing" once the user of SpecBack presses only back
    lastEvent,        \* history: the listener that ran last
    prevView,         \* history: view before the last event
    prevStack         \* history: navigationStack before the last event

vars == <<data, navigationStack, view, listeners, disabled, sessions, results,
          uncaught, pc, lastEvent, prevView, prevStack>>

(***************************************************************************)
(* Bounds of the model.                                                    *)
(***************************************************************************)
\* Events that would push onto a navigation stack of this length are not taken.
MaxStack == 10
\* The largest quiz of the scoring specification.
MaxTotal == 40
\* The user of the back-only specification browses below this stack length.
MaxBrowse == 7

(***************************************************************************)
(* JavaScript values.                                                      *)
(***************************************************************************)
\* An unanswered slot of userAnswers (null); option indices are >= 0.
null == -1
\* app.data before the load.
NoData == [t |-> "null"]
\* app.data after the load: the variable names the document, Courses gives
\* what the document holds.
MainDocument == [t |-> "object", name |-> "database"]
ScoreDocument(n) == [t |-> "object", name |-> "one quiz", total |-> n]
\* An id of the content document is a JSON string, written here as itself,
\* or a JSON number, written with a leading #: "#2" is the number 2, which
\* is not (===) the string "2".
NumberText == ("#2" :> "2") @@ ("#7" :> "7")
\* `${id}` written into a data- attribute and read back through dataset:
\* always a string.
DataAttr(x) == IF x \in DOMAIN NumberText THEN NumberText[x] ELSE x
\* Array.prototype.find with the predicate x => x.id === id (strict equality):
\* << >> stands for undefined.
Find(arr, id) ==
    LET hits == {i \in 1..Len(arr) : arr[i].id = id}
    IN  IF hits = {} THEN << >>
        ELSE <<arr[CHOOSE i \in hits : \A j \in hits : i <= j]>>
\* Array.prototype.pop: on an empty array it returns undefined and changes nothing.
Pop(arr) == IF arr = << >> THEN arr ELSE SubSeq(arr, 1, Len(arr) - 1)
\* arr[i] with a 0-based index.
At(arr, i) == arr[i + 1]

(***************************************************************************)
(* The content document (database.json).                                   *)
(***************************************************************************)
Question(stem, options, answerIndex) ==
    [stem |-> stem, options |-> options, answerIndex |-> answerIndex]

Database ==
    [courses |->
        ("gyn" :> [title |-> "Gynecology",
                   subjects |-> <<
                     [id |-> "s1", title |-> "Basics",
                      lessons |-> <<
                        [id |-> "l1", title |-> "One",
                         quiz |-> << Question("q1", <<"a", "b">>, 0) >>],
                        [id |-> "l2", title |-> "Three",
                         quiz |-> << Question("q1", <<"a", "b">>, 1),
                                     Question("q2", <<"a", "b">>, 0),
                                     Question("q3", <<"a", "b", "c">>, 2) >>] >>],
                     [id |-> "#2", title |-> "Numbered",
                      lessons |-> <<
                        [id |-> "l1", title |-> "Hidden",
                         quiz |-> << Question("q1", <<"a", "b">>, 0) >>] >>] >>])
        @@
        ("obs" :> [title |-> "Obstetrics",
                   subjects |-> <<
                     [id |-> "s1", title |-> "Labour",
                      lessons |-> <<
                        [id |-> "#7", title |-> "Numbered",
                         quiz |-> << Question("q1", <<"a", "b">>, 1) >>] >>] >>])]

\* A document with a single lesson, of n questions of two options each.
ScoreDatabase(n) ==
    [courses |->
        ("gyn" :> [title |-> "Gynecology",
                   subjects |-> <<
                     [id |-> "s1", title |-> "Basics",
                      lessons |-> <<
                        [id |-> "l1", title |-> "Long",
                         quiz |-> [i \in 1..n |->
                                     Question("q", <<"a", "b">>, i % 2)]] >>] >>])]

\* data.courses
Courses(d) ==
    IF d.name = "database" THEN Database.courses
    ELSE ScoreDatabase(d.total).courses

(***************************************************************************)
(* The application state a handler works on.                               *)
(***************************************************************************)
App ==
    [data |-> data, navigationStack |-> navigationStack, view |-> view,
     listeners |-> listeners, disabled |-> disabled, sessions |-> sessions,
     results |-> results, uncaught |-> uncaught]

NoResults == [shown |-> FALSE]
NoSessions == << >>

\* A TypeError ("cannot read properties of undefined") leaves the handler at
\* the point of the throw: nothing the handler did before it is undone.
Throw(a) == [a EXCEPT !.uncaught = TRUE]

\* The content lookups every render starts with.
HasCourse(a, courseId) == courseId \in DOMAIN Courses(a.data)
FindSubject(a, courseId, subjectId) ==
    Find(Courses(a.data)[courseId].subjects, subjectId)
FindLesson(a, courseId, subjectId, lessonId) ==
    LET subject == FindSubject(a, courseId, subjectId)
    IN  IF subject = << >> THEN << >> ELSE Find(subject[1].lessons, lessonId)

(***************************************************************************)
(* updateView and the renders.                                             *)
(***************************************************************************)
\* updateView(title, content, state): the container's innerHTML is replaced,
\* which removes the elements on show together with their listeners and
\* disabled attributes; state, when given, is pushed. stateOpt is << >> for
\* an undefined state and <<state>> otherwise.
UpdateView(a, screen, stateOpt) ==
    [a EXCEPT !.view = screen,
              !.listeners = {},
              !.disabled = {},
              !.results = NoResults,
              !.navigationStack = @ \o stateOpt]

\* renderCourseList that hands updateView a Courses state to push.
RenderCourseListRecorded(a) ==
    LET state == [type |-> "courses"]
        shown == UpdateView(a, state, <<state>>)
    IN  [shown EXCEPT !.listeners =
            {[on |-> "courseCard", attr |-> k] : k \in DOMAIN Courses(a.data)}]

RenderCourseList(a) ==
    LET shown == UpdateView(a, [type |-> "courses"], << >>)
    IN  [shown EXCEPT !.listeners =
            {[on |-> "courseCard", attr |-> k] : k \in DOMAIN Courses(a.data)}]

\* renderSubjectList that calls updateView without a state: the Subjects
\* screen is drawn and nothing is pushed.
RenderSubjectListUnrecorded(a, courseId) ==
    IF ~HasCourse(a, courseId) THEN Throw(a)
    ELSE
    LET course == Courses(a.data)[courseId]
        state == [type |-> "subjects", courseId |-> courseId]
        shown == UpdateView(a, state, << >>)
    IN  [shown EXCEPT !.listeners =
            {[on |-> "back"]} \cup
            {[on |-> "subjectCard", courseId |-> courseId,
              attr |-> DataAttr(course.subjects[i].id)] :
                i \in 1..Len(course.subjects)}]

RenderSubjectList(a, courseId) ==
    IF ~HasCourse(a, courseId) THEN Throw(a)
    ELSE
    LET course == Courses(a.data)[courseId]
        state == [type |-> "subjects", courseId |-> courseId]
        shown == UpdateView(a, state, <<state>>)
    IN  [shown EXCEPT !.listeners =
            {[on |-> "back"]} \cup
            {[on |-> "subjectCard", courseId |-> courseId,
              attr |-> DataAttr(course.subjects[i].id)] :
                i \in 1..Len(course.subjects)}]

\* renderLessonList that calls updateView without a state: the Lessons
\* screen is drawn and nothing is pushed.
RenderLessonListUnrecorded(a, courseId, subjectId) ==
    IF ~HasCourse(a, courseId) THEN Throw(a)
    ELSE IF FindSubject(a, courseId, subjectId) = << >> THEN Throw(a)
    ELSE
    LET subject == FindSubject(a, courseId, subjectId)[1]
        state == [type |-> "lessons", courseId |-> courseId,
                  subjectId |-> subjectId]
        shown == UpdateView(a, state, << >>)
    IN  [shown EXCEPT !.listeners =
            {[on |-> "back"]} \cup
            {[on |-> "lessonCard", courseId |-> courseId,
              subjectId |-> subjectId,
              attr |-> DataAttr(subject.lessons[i].id)] :
                i \in 1..Len(subject.lessons)}]

RenderLessonList(a, courseId, subjectId) ==
    IF ~HasCourse(a, courseId) THEN Throw(a)
    ELSE IF FindSubject(a, courseId, subjectId) = << >> THEN Throw(a)
    ELSE
    LET subject == FindSubject(a, courseId, subjectId)[1]
        state == [type |-> "lessons", courseId |-> courseId,
                  subjectId |-> subjectId]
        shown == UpdateView(a, state, <<state>>)
    IN  [shown EXCEPT !.listeners =
            {[on |-> "back"]} \cup
            {[on |-> "lessonCard", courseId |-> courseId,
              subjectId |-> subjectId,
              attr |-> DataAttr(subject.lessons[i].id)] :
                i \in 1..Len(subject.lessons)}]

RenderLessonDetail(a, courseId, subjectId, lessonId) ==
    IF ~HasCourse(a, courseId) THEN Throw(a)
    ELSE IF FindLesson(a, courseId, subjectId, lessonId) = << >> THEN Throw(a)
    ELSE
    LET state == [type |-> "lesson", courseId |-> courseId,
                  subjectId |-> subjectId, lessonId |-> lessonId]
        shown == UpdateView(a, state, <<state>>)
    IN  [shown EXCEPT !.listeners =
            {[on |-> "back"],
             [on |-> "test", courseId |-> courseId, subjectId |-> subjectId,
              lessonId |-> lessonId]}]

(***************************************************************************)
(* The quiz session: the closure of one renderQuiz call.                   *)
(***************************************************************************)
\* The closure a new renderQuiz call allocates is distinct from every closure
\* still referred to.
FreshSid(a) == CHOOSE n \in 0..Cardinality(DOMAIN a.sessions) :
                   n \notin DOMAIN a.sessions

\* The closure keeps the ids it was called with, and with them quizData, the
\* quiz of that lesson in the document.
QuizData(d, s) ==
    Find(Find(Courses(d)[s.courseId].subjects, s.subjectId)[1].lessons,
         s.lessonId)[1].quiz

\* let currentQuestionIndex = 0; let userAnswers = new Array(n).fill(null)
NewSession(courseId, subjectId, lessonId, quizData) ==
    [courseId |-> courseId, subjectId |-> subjectId, lessonId |-> lessonId,
     currentQuestionIndex |-> 0,
     userAnswers |-> [i \in 1..Len(quizData) |-> null]]

\* renderCurrentQuestion whose listeners outlive the screen, as if they were
\* attached to the container and not to the elements innerHTML replaces.
RenderCurrentQuestionKeepingListeners(a, sid) ==
    LET s == a.sessions[sid]
        state == [type |-> "quiz", courseId |-> s.courseId,
                  subjectId |-> s.subjectId, lessonId |-> s.lessonId]
        shown == UpdateView(a, state, <<state>>)
    IN  [shown EXCEPT
            !.disabled = IF s.currentQuestionIndex = 0 THEN {"prev"} ELSE {},
            !.listeners = a.listeners \cup
                          {[on |-> "back"],
                           [on |-> "options", sid |-> sid],
                           [on |-> "next", sid |-> sid],
                           [on |-> "prev", sid |-> sid]}]

\* renderCurrentQuestion and the attachQuizListeners call that ends it.
RenderCurrentQuestion(a, sid) ==
    LET s == a.sessions[sid]
        state == [type |-> "quiz", courseId |-> s.courseId,
                  subjectId |-> s.subjectId, lessonId |-> s.lessonId]
        shown == UpdateView(a, state, <<state>>)
    IN  [shown EXCEPT
            !.disabled = IF s.currentQuestionIndex = 0 THEN {"prev"} ELSE {},
            !.listeners = {[on |-> "back"],
                           [on |-> "options", sid |-> sid],
                           [on |-> "next", sid |-> sid],
                           [on |-> "prev", sid |-> sid]}]

\* renderQuiz that goes on with the session of the same lesson when there is
\* one, as if its index and answers were kept outside the call.
RenderQuizResuming(a, courseId, subjectId, lessonId) ==
    IF ~HasCourse(a, courseId) THEN Throw(a)
    ELSE IF FindLesson(a, courseId, subjectId, lessonId) = << >> THEN Throw(a)
    ELSE
    LET lesson == FindLesson(a, courseId, subjectId, lessonId)[1]
        same == {sid \in DOMAIN a.sessions :
                    /\ a.sessions[sid].courseId = courseId
                    /\ a.sessions[sid].subjectId = subjectId
                    /\ a.sessions[sid].lessonId = lessonId}
        sid == FreshSid(a)
        created == [a EXCEPT !.sessions = @ @@
                       (sid :> NewSession(courseId, subjectId, lessonId,
                                          lesson.quiz))]
    IN  IF same # {} THEN RenderCurrentQuestion(a, CHOOSE x \in same : TRUE)
        ELSE RenderCurrentQuestion(created, sid)

RenderQuiz(a, courseId, subjectId, lessonId) ==
    IF ~HasCourse(a, courseId) THEN Throw(a)
    ELSE IF FindLesson(a, courseId, subjectId, lessonId) = << >> THEN Throw(a)
    ELSE
    LET lesson == FindLesson(a, courseId, subjectId, lessonId)[1]
        sid == FreshSid(a)
        created == [a EXCEPT !.sessions = @ @@
                       (sid :> NewSession(courseId, subjectId, lessonId,
                                          lesson.quiz))]
    IN  RenderCurrentQuestion(created, sid)

\* handleAnswerSelection that takes data-index for a position counted from 1.
HandleAnswerSelectionOneBased(a, sid, selectedIndex) ==
    LET s == a.sessions[sid]
    IN  [a EXCEPT
            !.sessions[sid].userAnswers[s.currentQuestionIndex + 1] =
                selectedIndex + 1,
            !.disabled = @ \cup {"option"}]

\* handleAnswerSelection(selectedIndex)
HandleAnswerSelection(a, sid, selectedIndex) ==
    LET s == a.sessions[sid]
    IN  [a EXCEPT
            !.sessions[sid].userAnswers[s.currentQuestionIndex + 1] =
                selectedIndex,
            !.disabled = @ \cup {"option"}]

(***************************************************************************)
(* Math.round((correctAnswers / quizData.length) * 100) in IEEE 754         *)
(* double precision. A double is a significand, a sequence of bits with    *)
(* the most significant first and of at most 53 bits, and the exponent e   *)
(* of its last bit: its value is significand * 2^e. The operators work on  *)
(* the bits, as no integer of the model checker holds 53 of them.          *)
(***************************************************************************)
Pow2Table ==
    <<1, 2, 4, 8, 16, 32, 64, 128, 256, 512, 1024, 2048, 4096, 8192, 16384,
      32768, 65536, 131072, 262144, 524288, 1048576, 2097152, 4194304,
      8388608, 16777216, 33554432, 67108864, 134217728, 268435456,
      536870912, 1073741824>>
Pow2(n) == Pow2Table[n + 1]

\* The n bits of the integer v < 2^n, and the integer of at most 18 bits.
BitsOf(v, n) == [i \in 1..n |-> (v \div Pow2(n - i)) % 2]
Bits6(b, o) ==
    32 * b[o + 1] + 16 * b[o + 2] + 8 * b[o + 3] + 4 * b[o + 4]
    + 2 * b[o + 5] + b[o + 6]
BitsToInt(bits) ==
    LET b == [i \in 1..(18 - Len(bits)) |-> 0] \o bits
    IN  4096 * Bits6(b, 0) + 64 * Bits6(b, 6) + Bits6(b, 12)

StripLeadingZeros(bits) ==
    LET ones == {i \in 1..Len(bits) : bits[i] = 1}
    IN  IF ones = {} THEN << >>
        ELSE SubSeq(bits, CHOOSE i \in ones : \A j \in ones : i <= j, Len(bits))

\* bits + 1; one bit longer when every bit was set.
IncBits(bits) ==
    LET n == Len(bits)
        zeros == {i \in 1..n : bits[i] = 0}
    IN  IF zeros = {} THEN <<1>> \o [i \in 1..n |-> 0]
        ELSE LET z == CHOOSE i \in zeros : \A j \in zeros : j <= i
             IN  [i \in 1..n |-> IF i < z THEN bits[i]
                                 ELSE IF i = z THEN 1 ELSE 0]

\* Round to nearest, ties to even, to a significand of 53 bits.
RoundToDouble(bits, e) ==
    IF Len(bits) <= 53 THEN [bits |-> bits, e |-> e]
    ELSE
    LET keep == SubSeq(bits, 1, 53)
        rest == SubSeq(bits, 54, Len(bits))
        sticky == \E i \in 2..Len(rest) : rest[i] = 1
        up == rest[1] = 1 /\ (sticky \/ keep[53] = 1)
        m == IF up THEN IncBits(keep) ELSE keep
    IN  IF Len(m) = 54 THEN [bits |-> SubSeq(m, 1, 53), e |-> e + Len(rest) + 1]
        ELSE [bits |-> m, e |-> e + Len(rest)]

\* The number of doublings of c that reach t.
RECURSIVE LeadShift(_, _)
LeadShift(c, t) == IF c >= t THEN 0 ELSE 1 + LeadShift(2 * c, t)

\* What is left of r / t, for 0 <= r < t, after i bits of the quotient:
\* (r * 2^i) mod t.
DivRem(r, t, i) ==
    (r * (((Pow2(i \div 2) % t) * (Pow2(i - i \div 2) % t)) % t)) % t

\* The first n bits of r / t after the binary point.
DivBits(r, t, n) ==
    [i \in 1..n |-> IF 2 * DivRem(r, t, i - 1) >= t THEN 1 ELSE 0]

\* c / t for integers 1 <= c <= t: the quotient's first 54 bits and a sticky
\* bit for the rest, rounded.
DoubleDiv(c, t) ==
    LET z == LeadShift(c, t)
        r == c * Pow2(z) - t
        sticky == IF DivRem(r, t, 53) # 0 THEN 1 ELSE 0
    IN  RoundToDouble(<<1>> \o DivBits(r, t, 53) \o <<sticky>>, -z - 54)

\* x * k for a small integer k: the significand times k, in three limbs of
\* 18 bits, rounded.
DoubleTimes(x, k) ==
    LET b == [i \in 1..(54 - Len(x.bits)) |-> 0] \o x.bits
        lo == k * BitsToInt(SubSeq(b, 37, 54))
        mid == k * BitsToInt(SubSeq(b, 19, 36)) + lo \div Pow2(18)
        hi == k * BitsToInt(SubSeq(b, 1, 18)) + mid \div Pow2(18)
        product == BitsOf(hi, 30) \o BitsOf(mid % Pow2(18), 18)
                   \o BitsOf(lo % Pow2(18), 18)
    IN  RoundToDouble(StripLeadingZeros(product), x.e)

\* Math.round of a positive double below 2^18: the nearest integer, a tie
\* going up.
MathRound(x) ==
    LET n == Len(x.bits) + x.e
    IN  IF x.e >= 0 THEN BitsToInt(x.bits) * Pow2(x.e)
        ELSE IF n < 0 THEN 0
        ELSE BitsToInt(SubSeq(x.bits, 1, n)) + x.bits[n + 1]

ScorePercentage(correctAnswers, total) ==
    IF correctAnswers = 0 THEN 0
    ELSE MathRound(DoubleTimes(DoubleDiv(correctAnswers, total), 100))

(***************************************************************************)
(* The results screen, next, prev and back.                                *)
(***************************************************************************)
\* The questions the forEach of renderResults counts as correct.
CorrectQuestions(quizData, userAnswers) ==
    {i \in 1..Len(quizData) : userAnswers[i] = quizData[i].answerIndex}

\* One .incorrect-question block of resultsHtml.
ReviewEntry(question, answer) ==
    [stem |-> question.stem,
     yourAnswer |-> IF answer # null THEN At(question.options, answer)
                    ELSE "Not Answered",
     correctAnswer |-> At(question.options, question.answerIndex)]

\* Review with unanswered questions passed over, as if null were no answer to
\* report.
ReviewSkipsUnanswered(quizData, userAnswers) ==
    LET wrong == {i \in 1..Len(quizData) :
                     /\ userAnswers[i] # null
                     /\ userAnswers[i] # quizData[i].answerIndex}
        nth(k) == CHOOSE i \in wrong : Cardinality({j \in wrong : j < i}) = k - 1
    IN  [k \in 1..Cardinality(wrong) |->
            ReviewEntry(quizData[nth(k)], userAnswers[nth(k)])]

\* resultsHtml: the forEach appends a block for each question it does not
\* count as correct, in the order of quizData.
Review(quizData, userAnswers) ==
    LET wrong == (1..Len(quizData)) \ CorrectQuestions(quizData, userAnswers)
        nth(k) == CHOOSE i \in wrong : Cardinality({j \in wrong : j < i}) = k - 1
    IN  [k \in 1..Cardinality(wrong) |->
            ReviewEntry(quizData[nth(k)], userAnswers[nth(k)])]

RenderResults(a, sid) ==
    LET s == a.sessions[sid]
        quizData == QuizData(a.data, s)
        correctAnswers == Cardinality(CorrectQuestions(quizData, s.userAnswers))
        stack == a.navigationStack
        \* this.navigationStack[this.navigationStack.length - 2]
        state == IF Len(stack) >= 2 THEN <<stack[Len(stack) - 1]>> ELSE << >>
        screen == [type |-> "results", courseId |-> s.courseId,
                   subjectId |-> s.subjectId, lessonId |-> s.lessonId]
        shown == UpdateView(a, screen, state)
    IN  [shown EXCEPT
            !.results = [shown |-> TRUE,
                         correctAnswers |-> correctAnswers,
                         total |-> Len(quizData),
                         scorePercentage |->
                             ScorePercentage(correctAnswers, Len(quizData)),
                         review |-> Review(quizData, s.userAnswers)],
            !.listeners = {[on |-> "back"],
                           [on |-> "retry", courseId |-> s.courseId,
                            subjectId |-> s.subjectId,
                            lessonId |-> s.lessonId]}]

\* handleNext with its bound off by one: < quizData.length.
HandleNextOffByOne(a, sid) ==
    LET s == a.sessions[sid]
    IN  IF s.currentQuestionIndex < Len(QuizData(a.data, s))
        THEN RenderCurrentQuestion(
                 [a EXCEPT !.sessions[sid].currentQuestionIndex = @ + 1], sid)
        ELSE RenderResults(a, sid)

HandleNext(a, sid) ==
    LET s == a.sessions[sid]
    IN  IF s.currentQuestionIndex < Len(QuizData(a.data, s)) - 1
        THEN RenderCurrentQuestion(
                 [a EXCEPT !.sessions[sid].currentQuestionIndex = @ + 1], sid)
        ELSE RenderResults(a, sid)

HandlePrev(a, sid) ==
    LET s == a.sessions[sid]
    IN  IF s.currentQuestionIndex > 0
        THEN RenderCurrentQuestion(
                 [a EXCEPT !.sessions[sid].currentQuestionIndex = @ - 1], sid)
        ELSE a

RenderView(a, state) ==
    CASE state.type = "courses" -> RenderCourseList(a)
      [] state.type = "subjects" -> RenderSubjectList(a, state.courseId)
      [] state.type = "lessons" ->
            RenderLessonList(a, state.courseId, state.subjectId)
      [] state.type = "lesson" ->
            RenderLessonDetail(a, state.courseId, state.subjectId,
                               state.lessonId)
      [] state.type = "quiz" ->
            RenderQuiz(a, state.courseId, state.subjectId, state.lessonId)
      [] OTHER -> a

\* handleBack with the first pop only: the state it renders stays on the
\* stack and is pushed again by the render.
HandleBackSinglePop(a) ==
    LET popped == [a EXCEPT !.navigationStack = Pop(@)]
    IN  IF Len(popped.navigationStack) > 0
        THEN RenderView(popped,
                        popped.navigationStack[Len(popped.navigationStack)])
        ELSE RenderCourseList(popped)

\* handleBack that drops the history and goes to the homepage.
HandleBackHome(a) == RenderCourseList([a EXCEPT !.navigationStack = << >>])

\* handleBack without the branch for an empty history: it renders the
\* previous state whatever the length, and reads .type of undefined.
HandleBackNoFallback(a) ==
    LET popped == [a EXCEPT !.navigationStack = Pop(@)]
    IN  IF Len(popped.navigationStack) > 0
        THEN LET previousState ==
                     popped.navigationStack[Len(popped.navigationStack)]
             IN  RenderView([popped EXCEPT !.navigationStack = Pop(@)],
                            previousState)
        ELSE Throw(popped)

HandleBack(a) ==
    LET popped == [a EXCEPT !.navigationStack = Pop(@)]
    IN  IF Len(popped.navigationStack) > 0
        THEN LET previousState ==
                     popped.navigationStack[Len(popped.navigationStack)]
             IN  RenderView([popped EXCEPT !.navigationStack = Pop(@)],
                            previousState)
        ELSE RenderCourseList(popped)

(***************************************************************************)
(* Events.                                                                 *)
(***************************************************************************)
\* The closures the listeners on show refer to; the others are out of the
\* program's reach once the handler returns.
Referenced(ls) == {l.sid : l \in {x \in ls : x.on \in {"options", "next", "prev"}}}

\* One event: the handler of listener l ran from App to the state a, without
\* interleaving.
Dispatch(l, a) ==
    /\ data' = a.data
    /\ navigationStack' = a.navigationStack
    /\ view' = a.view
    /\ listeners' = a.listeners
    /\ disabled' = a.disabled
    /\ sessions' = [sid \in DOMAIN a.sessions \cap Referenced(a.listeners) |->
                        a.sessions[sid]]
    /\ results' = a.results
    /\ uncaught' = a.uncaught
    /\ lastEvent' = l
    /\ prevView' = view
    /\ prevStack' = navigationStack
    /\ UNCHANGED pc

\* The handler starts with no exception pending.
Start == [App EXCEPT !.uncaught = FALSE]

\* A handler that may push is taken only below the bound on the stack.
Room == Len(navigationStack) < MaxStack

ClickCourseCard ==
    \E l \in listeners :
        /\ l.on = "courseCard"
        /\ Room
        /\ Dispatch(l, RenderSubjectList(Start, l.attr))

ClickSubjectCard ==
    \E l \in listeners :
        /\ l.on = "subjectCard"
        /\ Room
        /\ Dispatch(l, RenderLessonList(Start, l.courseId, l.attr))

ClickLessonCard ==
    \E l \in listeners :
        /\ l.on = "lessonCard"
        /\ Room
        /\ Dispatch(l,
                    RenderLessonDetail(Start, l.courseId, l.subjectId, l.attr))

ClickTest ==
    \E l \in listeners :
        /\ l.on = "test"
        /\ Room
        /\ Dispatch(l,
                    RenderQuiz(Start, l.courseId, l.subjectId, l.lessonId))

\* A click on an option button that is not disabled reaches the listener of
\* #options-grid; parseInt(dataset.index) is the button's index.
ClickOption ==
    \E l \in listeners :
        /\ l.on = "options"
        /\ "option" \notin disabled
        /\ LET s == sessions[l.sid]
               question == At(QuizData(data, s), s.currentQuestionIndex)
           IN  \E index \in 0..(Len(question.options) - 1) :
                   Dispatch(l, HandleAnswerSelection(Start, l.sid, index))

ClickNext ==
    \E l \in listeners :
        /\ l.on = "next"
        /\ Room
        /\ Dispatch(l, HandleNext(Start, l.sid))

\* A disabled #prev-btn dispatches no click.
ClickPrev ==
    \E l \in listeners :
        /\ l.on = "prev"
        /\ "prev" \notin disabled
        /\ Room
        /\ Dispatch(l, HandlePrev(Start, l.sid))

ClickRetry ==
    \E l \in listeners :
        /\ l.on = "retry"
        /\ Room
        /\ Dispatch(l,
                    RenderQuiz(Start, l.courseId, l.subjectId, l.lessonId))

ClickBack ==
    \E l \in listeners :
        /\ l.on = "back"
        /\ Dispatch(l, HandleBack(Start))

(***************************************************************************)
(* init(): the one asynchronous step of the program.                       *)
(***************************************************************************)
\* fetch resolved, response.ok, and the body parsed.
InitLoaded ==
    /\ pc = "fetch"
    /\ pc' = "done"
    /\ LET a == RenderCourseList([Start EXCEPT !.data = MainDocument])
       IN  /\ data' = a.data
           /\ navigationStack' = a.navigationStack
           /\ view' = a.view
           /\ listeners' = a.listeners
           /\ disabled' = a.disabled
           /\ sessions' = a.sessions
           /\ results' = a.results
           /\ uncaught' = a.uncaught
    /\ lastEvent' = [on |-> "loaded"]
    /\ prevView' = view
    /\ prevStack' = navigationStack

LoadFailures == {"fetch rejected", "response not ok", "body not JSON"}

\* init() whose catch block goes on to the course list of an empty document.
InitFailedShowsCourses ==
    /\ pc = "fetch"
    /\ pc' = "done"
    /\ \E cause \in LoadFailures :
          /\ view' = [type |-> "courses"]
          /\ lastEvent' = [on |-> "failed", cause |-> cause]
    /\ prevView' = view
    /\ prevStack' = navigationStack
    /\ UNCHANGED <<data, navigationStack, listeners, disabled, sessions,
                   results, uncaught>>

\* Any of the failures ends in the catch block, which writes the message.
InitFailed ==
    /\ pc = "fetch"
    /\ pc' = "done"
    /\ \E cause \in LoadFailures :
          /\ view' = [type |-> "error"]
          /\ lastEvent' = [on |-> "failed", cause |-> cause]
    /\ prevView' = view
    /\ prevStack' = navigationStack
    /\ UNCHANGED <<data, navigationStack, listeners, disabled, sessions,
                   results, uncaught>>

Init ==
    /\ data = NoData
    /\ navigationStack = << >>
    /\ view = [type |-> "blank"]
    /\ listeners = {}
    /\ disabled = {}
    /\ sessions = NoSessions
    /\ results = NoResults
    /\ uncaught = FALSE
    /\ pc = "fetch"
    /\ lastEvent = [on |-> "DOMContentLoaded"]
    /\ prevView = [type |-> "blank"]
    /\ prevStack = << >>

Next ==
    \/ InitLoaded
    \/ InitFailed
    \/ ClickCourseCard
    \/ ClickSubjectCard
    \/ ClickLessonCard
    \/ ClickTest
    \/ ClickOption
    \/ ClickNext
    \/ ClickPrev
    \/ ClickRetry
    \/ ClickBack

Spec == Init /\ [][Next]_vars

(***************************************************************************)
(* The scoring specification: the finish of a quiz of 1..MaxTotal          *)
(* questions. It starts where the user stands at the last question of the  *)
(* only lesson of ScoreDocument(total), the first `correct` questions      *)
(* answered correctly and the others answered wrongly or left out, and its *)
(* one step is the click on Finish Quiz.                                   *)
(***************************************************************************)
ScoreIds == [courseId |-> "gyn", subjectId |-> "s1", lessonId |-> "l1"]

ScoreAnswers(total, correct, rest) ==
    [i \in 1..total |->
        IF i <= correct THEN i % 2
        ELSE IF rest = "wrong" THEN 1 - (i % 2)
        ELSE IF rest = "none" THEN null
        ELSE IF i % 3 = 0 THEN null ELSE 1 - (i % 2)]

\* The state the renders leave after course, subject, lesson and Test
\* Yourself were clicked and Next was clicked total - 1 times.
AtLastQuestion(total, answers) ==
    LET quiz == [type |-> "quiz"] @@ ScoreIds
        session == ScoreIds @@ [currentQuestionIndex |-> total - 1,
                                userAnswers |-> answers]
        before ==
            [data |-> ScoreDocument(total),
             navigationStack |->
                 <<[type |-> "subjects", courseId |-> "gyn"],
                   [type |-> "lessons", courseId |-> "gyn",
                    subjectId |-> "s1"],
                   [type |-> "lesson"] @@ ScoreIds>>
                 \o [i \in 1..(total - 1) |-> quiz],
             view |-> IF total = 1 THEN [type |-> "lesson"] @@ ScoreIds ELSE quiz,
             listeners |-> {}, disabled |-> {},
             sessions |-> (0 :> session),
             results |-> NoResults, uncaught |-> FALSE]
    IN  RenderCurrentQuestion(before, 0)

InitScore ==
    \E total \in 1..MaxTotal :
      \E correct \in 0..total :
        \E rest \in {"wrong", "none", "mixed"} :
          LET answers == ScoreAnswers(total, correct, rest)
              a == AtLastQuestion(total, answers)
              answered == answers[total] # null
          IN  /\ data = a.data
              /\ navigationStack = a.navigationStack
              /\ view = a.view
              /\ listeners = a.listeners
              /\ disabled = a.disabled \cup
                            (IF answered THEN {"option"} ELSE {})
              /\ sessions = a.sessions
              /\ results = a.results
              /\ uncaught = FALSE
              /\ pc = "done"
              /\ lastEvent = IF answered THEN [on |-> "options", sid |-> 0]
                             ELSE IF total = 1
                             THEN [on |-> "test"] @@ ScoreIds
                             ELSE [on |-> "next", sid |-> 0]
              /\ prevView = IF answered \/ total > 1 THEN a.view
                            ELSE [type |-> "lesson"] @@ ScoreIds
              /\ prevStack = IF answered THEN a.navigationStack
                             ELSE Pop(a.navigationStack)

\* The click on #next-btn, which reads Finish Quiz at the last question.
ClickFinish ==
    \E l \in listeners :
        /\ l.on = "next"
        /\ Dispatch(l, HandleNext(Start, l.sid))

SpecScore == InitScore /\ [][ClickFinish]_vars

(***************************************************************************)
(* The specification of a user who, at some point after the load, presses  *)
(* nothing but back buttons: pc = "backing" from that point on. The        *)
(* fairness condition is the user's, who goes on pressing while a back     *)
(* button is on show.                                                      *)
(***************************************************************************)
\* Until then the user browses, while the stack has fewer than MaxBrowse
\* entries.
BrowseStep == pc # "backing" /\ Len(navigationStack) < MaxBrowse /\ Next

BeginBacking ==
    /\ pc = "done"
    /\ data # NoData
    /\ pc' = "backing"
    /\ UNCHANGED <<data, navigationStack, view, listeners, disabled, sessions,
                   results, uncaught, lastEvent, prevView, prevStack>>

\* ClickBack, with the state handleBack returns computed once.
BackStep ==
    /\ pc = "backing"
    /\ \E l \in listeners :
          /\ l.on = "back"
          /\ \E a \in {HandleBack(Start)} : Dispatch(l, a)

NextBack == BrowseStep \/ BeginBacking \/ BackStep

SpecBack == Init /\ [][NextBack]_vars /\ WF_vars(BackStep)

(***************************************************************************)
(* Notions the properties share.                                           *)
(***************************************************************************)
\* The events that draw a screen and push its state.
Forward == {"courseCard", "subjectCard", "lessonCard", "test", "next", "prev",
            "retry"}
QuizShown == view.type = "quiz"
\* The session of the quiz on show.
LiveSid == CHOOSE sid \in DOMAIN sessions : TRUE
Live == sessions[LiveSid]
LastIndex(s) == Len(QuizData(data, s)) - 1
AllUnanswered(s) == \A i \in 1..Len(s.userAnswers) : s.userAnswers[i] = null

(***************************************************************************)
(* C1. Once an answer is recorded for a question of a quiz session, no     *)
(* later event of that session changes it: every step keeps each recorded  *)
(* (non-null) slot of userAnswers of a session that goes on.               *)
(***************************************************************************)
C1_RecordedAnswerKept ==
    [][\A sid \in DOMAIN sessions \cap DOMAIN sessions' :
          \A i \in 1..Len(sessions[sid].userAnswers) :
              sessions[sid].userAnswers[i] # null =>
                  sessions'[sid].userAnswers[i] = sessions[sid].userAnswers[i]]_vars

(***************************************************************************)
(* C2. A back pressed right after a forward event that pushed a state      *)
(* shows the screen that was on show before the push, and leaves the       *)
(* navigation stack as it was before the push.                             *)
(***************************************************************************)
C2_BackUndoesPush ==
    [][(/\ lastEvent.on \in Forward
        /\ Len(navigationStack) = Len(prevStack) + 1
        /\ lastEvent'.on = "back")
       => (view' = prevView /\ navigationStack' = prevStack)]_vars

(***************************************************************************)
(* C3. The navigation stack never holds two entries for the same           *)
(* ViewState, and so never more than four entries.                         *)
(***************************************************************************)
C3_OneEntryPerScreen ==
    /\ \A i, j \in 1..Len(navigationStack) :
          i # j => navigationStack[i] # navigationStack[j]
    /\ Len(navigationStack) <= 4

(***************************************************************************)
(* C4. When the results are computed, total is the lesson's question       *)
(* count, correctCount is the number of questions whose recorded answer    *)
(* equals answerIndex (so 0 <= correctCount <= total) and the percentage   *)
(* is correctCount * 100 / total rounded to the nearest integer, a half    *)
(* going up.                                                               *)
(***************************************************************************)
\* floor(100 * c / t + 1/2)
RoundHalfUp(c, t) == (200 * c + t) \div (2 * t)

C4_ScoreExact ==
    [][(QuizShown /\ view'.type = "results") =>
        LET quizData == QuizData(data, Live)
            total == Len(quizData)
            correctCount ==
                Cardinality({i \in 1..total :
                                Live.userAnswers[i] = quizData[i].answerIndex})
        IN  /\ results'.total = total
            /\ results'.correctAnswers = correctCount
            /\ 0 <= results'.correctAnswers
            /\ results'.correctAnswers <= results'.total
            /\ results'.scorePercentage = RoundHalfUp(correctCount, total)]_vars

(***************************************************************************)
(* C5. The review lists exactly the questions whose recorded answer is     *)
(* unanswered or differs from answerIndex, in the lesson's order; each     *)
(* entry gives the chosen option's text, or "Not Answered" for an          *)
(* unanswered slot, and the correct option's text.                         *)
(***************************************************************************)
C5_ReviewExact ==
    [][(QuizShown /\ view'.type = "results") =>
        LET quizData == QuizData(data, Live)
            answers == Live.userAnswers
            Failed(i) == answers[i] = null \/ answers[i] # quizData[i].answerIndex
            failed == SelectSeq([i \in 1..Len(quizData) |-> i], Failed)
            review == results'.review
        IN  /\ Len(review) = Len(failed)
            /\ \A k \in 1..Len(failed) :
                  LET question == quizData[failed[k]]
                      answer == answers[failed[k]]
                  IN  /\ review[k].stem = question.stem
                      /\ review[k].yourAnswer =
                            (IF answer = null THEN "Not Answered"
                             ELSE question.options[answer + 1])
                      /\ review[k].correctAnswer =
                            question.options[question.answerIndex + 1]]_vars

\* The results of the three-question lesson with one question right, one
\* wrong and one left out.
C5_Witness ==
    /\ view.type = "results"
    /\ results.total = 3
    /\ results.correctAnswers = 1
    /\ Len(results.review) = 2
    /\ \E k \in 1..2 : results.review[k].yourAnswer = "Not Answered"
    /\ \E k \in 1..2 : results.review[k].yourAnswer # "Not Answered"

(***************************************************************************)
(* C6. currentIndex stays within [0, questionCount - 1]: next at the last  *)
(* question leaves it unchanged and shows the results, prev at index 0 is  *)
(* a no-op (and its button disabled), and the results are only ever        *)
(* entered by next at the last question.                                   *)
(***************************************************************************)
C6_IndexInRange ==
    /\ [](\A sid \in DOMAIN sessions :
             /\ sessions[sid].currentQuestionIndex >= 0
             /\ sessions[sid].currentQuestionIndex <= LastIndex(sessions[sid]))
    /\ []((QuizShown /\ Live.currentQuestionIndex = 0) =>
             /\ "prev" \in disabled
             /\ HandlePrev(Start, LiveSid) = Start)
    /\ [][(/\ QuizShown
           /\ lastEvent'.on = "next"
           /\ Live.currentQuestionIndex = LastIndex(Live))
          => /\ view'.type = "results"
             /\ HandleNext(Start, LiveSid).sessions[LiveSid].currentQuestionIndex
                    = Live.currentQuestionIndex]_vars
    /\ [][view'.type = "results" =>
             /\ QuizShown
             /\ lastEvent'.on = "next"
             /\ Live.currentQuestionIndex = LastIndex(Live)]_vars

\* The results of the three-question lesson, reached by next at its last
\* question.
C6_Witness ==
    /\ view.type = "results"
    /\ lastEvent.on = "next"
    /\ prevView.type = "quiz"
    /\ results.total = 3

(***************************************************************************)
(* C7. Every entry into the quiz view through renderQuiz (Test Yourself,   *)
(* Retry Quiz, a back that re-renders a Quiz state) starts a fresh session: *)
(* currentIndex 0 and every slot unanswered, whatever came before.         *)
(***************************************************************************)
C7_FreshSession ==
    [][(lastEvent'.on \in {"test", "retry", "back"} /\ view'.type = "quiz") =>
        /\ Cardinality(DOMAIN sessions') = 1
        /\ \A sid \in DOMAIN sessions' :
              /\ sessions'[sid].currentQuestionIndex = 0
              /\ Len(sessions'[sid].userAnswers)
                     = Len(QuizData(data', sessions'[sid]))
              /\ AllUnanswered(sessions'[sid])]_vars

\* A back from a later question of a quiz has re-rendered the quiz.
C7_Witness ==
    /\ lastEvent.on = "back"
    /\ QuizShown
    /\ prevView.type = "quiz"
    /\ Len(prevStack) >= 6
    /\ Live.currentQuestionIndex = 0
    /\ AllUnanswered(Live)

(***************************************************************************)
(* C8. handleBack tolerates an empty history: called on an empty stack, or *)
(* when removing the current entry leaves the stack empty, it shows the    *)
(* Courses view, leaves the stack empty and raises no error.               *)
(***************************************************************************)
C8_BackToRoot ==
    /\ [](data # NoData =>
             LET after == HandleBack([Start EXCEPT !.navigationStack = << >>])
             IN  /\ after.view = [type |-> "courses"]
                 /\ after.navigationStack = << >>
                 /\ ~after.uncaught)
    /\ [][(lastEvent'.on = "back" /\ Len(navigationStack) <= 1) =>
             /\ view' = [type |-> "courses"]
             /\ navigationStack' = << >>
             /\ ~uncaught']_vars

\* Back was pressed on the Subjects view, with one entry on the stack.
C8_Witness ==
    /\ lastEvent.on = "back"
    /\ prevView.type = "subjects"
    /\ Len(prevStack) = 1
    /\ view.type = "courses"
    /\ navigationStack = << >>

(***************************************************************************)
(* C9. A failed load ends in the error state for good: no view is          *)
(* rendered, the stack stays empty and no event has a listener; and before *)
(* the load completes no event has a listener either.                      *)
(***************************************************************************)
C9_LoadFailureHalts ==
    /\ [](view.type \in {"blank", "error"} =>
             /\ listeners = {}
             /\ navigationStack = << >>
             /\ sessions = NoSessions)
    /\ [](pc = "fetch" => view.type = "blank")
    /\ [][lastEvent'.on = "failed" => view'.type = "error"]_vars
    /\ [][view.type = "blank" => lastEvent'.on \in {"loaded", "failed"}]_vars
    /\ [][view.type = "error" => UNCHANGED vars]_vars

\* The load failed.
C9_Witness ==
    /\ view.type = "error"
    /\ lastEvent.on = "failed"
    /\ pc = "done"

(***************************************************************************)
(* C10. A render for an id chain that does not resolve in the content      *)
(* falls back to the Courses view, creates no session and raises no error. *)
(***************************************************************************)
\* The card clicked last asked for a subject or a lesson the lookup of its
\* render does not find.
LastChainUnresolved ==
    \/ /\ lastEvent.on = "subjectCard"
       /\ FindSubject(App, lastEvent.courseId, lastEvent.attr) = << >>
    \/ /\ lastEvent.on = "lessonCard"
       /\ FindLesson(App, lastEvent.courseId, lastEvent.subjectId,
                     lastEvent.attr) = << >>

C10_UnresolvedFallsBack ==
    LastChainUnresolved =>
        /\ view = [type |-> "courses"]
        /\ sessions = NoSessions
        /\ ~uncaught

(***************************************************************************)
(* C11. With the results of a quiz on show, the back button (Back to       *)
(* Topics) shows the Lessons view of the quiz's subject, whether the       *)
(* lesson has one question or several.                                     *)
(***************************************************************************)
C11_ResultsBackToLessons ==
    [][(view.type = "results" /\ lastEvent'.on = "back") =>
          view' = [type |-> "lessons", courseId |-> view.courseId,
                   subjectId |-> view.subjectId]]_vars

(***************************************************************************)
(* C12. At most one quiz session receives events: the listeners on show    *)
(* refer to one closure at most, and to none when no question is on show;  *)
(* when a new session starts (Test Yourself, Retry Quiz, a back that       *)
(* renders a Quiz state) no listener refers to an earlier session any      *)
(* more, and an event of a session only ever touches the index and the     *)
(* answers of the session it belongs to.                                   *)
(***************************************************************************)
C12_OneLiveSession ==
    /\ [](Cardinality(Referenced(listeners)) <= 1)
    /\ [](Referenced(listeners) = DOMAIN sessions)
    /\ [](~QuizShown => Referenced(listeners) = {})
    /\ [][(lastEvent'.on \in {"test", "retry", "back"} /\ view'.type = "quiz")
            => Referenced(listeners') \cap DOMAIN sessions = {}]_vars
    /\ [][lastEvent'.on \in {"options", "next", "prev"} =>
            /\ Referenced(listeners) = {lastEvent'.sid}
            /\ DOMAIN sessions' \subseteq {lastEvent'.sid}]_vars

\* A back from the second question of a quiz started a new session while the
\* closure of the one left was still referred to by the listeners replaced.
C12_Witness ==
    /\ lastEvent.on = "back"
    /\ prevView.type = "quiz"
    /\ QuizShown
    /\ Len(prevStack) >= 5
    /\ DOMAIN sessions = {1}
    /\ Referenced(listeners) = {1}

(***************************************************************************)
(* C13. Every entry of the navigation stack has an id chain that resolves  *)
(* in the content, and the stack starts with the ancestor chain: entry 0   *)
(* is a Subjects state, entry 1 a Lessons state of the same course and     *)
(* entry 2 a Lesson state of the same course and subject.                  *)
(***************************************************************************)
\* The ids of a stack entry name a course, a subject and a lesson of the
\* document, as far as the entry carries them.
Resolves(e) ==
    /\ HasCourse(App, e.courseId)
    /\ e.type \in {"lessons", "lesson", "quiz"} =>
           FindSubject(App, e.courseId, e.subjectId) # << >>
    /\ e.type \in {"lesson", "quiz"} =>
           FindLesson(App, e.courseId, e.subjectId, e.lessonId) # << >>

C13_AncestorChain ==
    LET n == Len(navigationStack)
    IN  /\ \A i \in 1..n :
              /\ navigationStack[i].type \in
                     {"subjects", "lessons", "lesson", "quiz"}
              /\ Resolves(navigationStack[i])
        /\ n >= 1 => navigationStack[1].type = "subjects"
        /\ n >= 2 =>
              /\ navigationStack[2].type = "lessons"
              /\ navigationStack[2].courseId = navigationStack[1].courseId
        /\ n >= 3 =>
              /\ navigationStack[3].type = "lesson"
              /\ navigationStack[3].courseId = navigationStack[2].courseId
              /\ navigationStack[3].subjectId = navigationStack[2].subjectId

\* A back from a retried quiz left a stack on which the entry the results
\* pushed lies above a Quiz entry.
C13_Witness ==
    /\ lastEvent.on = "back"
    /\ Len(navigationStack) >= 5
    /\ navigationStack[4].type = "quiz"
    /\ navigationStack[5].type = "lesson"

(***************************************************************************)
(* C14. The answers of a quiz session are as many as the lesson has        *)
(* questions, and each is unanswered (null) or the index of an option of   *)
(* the question at its position.                                           *)
(***************************************************************************)
C14_AnswersWellFormed ==
    \A sid \in DOMAIN sessions :
        LET s == sessions[sid]
            quizData == QuizData(data, s)
        IN  /\ Len(s.userAnswers) = Len(quizData)
            /\ \A i \in 1..Len(quizData) :
                  \/ s.userAnswers[i] = null
                  \/ /\ s.userAnswers[i] >= 0
                     /\ s.userAnswers[i] < Len(quizData[i].options)

\* The last option of the third question, which has three, was selected
\* after the first question was answered and the second left out.
C14_Witness ==
    /\ QuizShown
    /\ Len(Live.userAnswers) = 3
    /\ Live.userAnswers[1] # null
    /\ Live.userAnswers[2] = null
    /\ Live.userAnswers[3] = 2
    /\ lastEvent.on = "options"

(***************************************************************************)
(* C15. With a quiz question on show, at any index and after any next,     *)
(* prev and select, the back button (Back to Lesson) shows the Lesson      *)
(* detail view of the quiz's lesson.                                       *)
(***************************************************************************)
C15_QuizBackToLesson ==
    [][(QuizShown /\ lastEvent'.on = "back") =>
          view' = [view EXCEPT !.type = "lesson"]]_vars

(***************************************************************************)
(* C16. With the Lesson detail view on show, in any reachable state, the   *)
(* back button (Back to Topics) shows the Lessons view of the lesson's     *)
(* subject.                                                                *)
(***************************************************************************)
C16_LessonBackToLessons ==
    [][(view.type = "lesson" /\ lastEvent'.on = "back") =>
          view' = [type |-> "lessons", courseId |-> view.courseId,
                   subjectId |-> view.subjectId]]_vars

(***************************************************************************)
(* C17. The back button of the Subjects view shows the Courses view, and   *)
(* the back button of the Lessons view shows the Subjects view of the same *)
(* course, in every reachable state.                                       *)
(***************************************************************************)
C17_ListBack ==
    /\ [][(view.type = "subjects" /\ lastEvent'.on = "back") =>
             view' = [type |-> "courses"]]_vars
    /\ [][(view.type = "lessons" /\ lastEvent'.on = "back") =>
             view' = [type |-> "subjects", courseId |-> view.courseId]]_vars

\* Back was pressed on the Lessons view of the second course, and the
\* Subjects view of that course is on show.
C17_Witness ==
    /\ lastEvent.on = "back"
    /\ prevView.type = "lessons"
    /\ prevView.courseId = "obs"
    /\ view = [type |-> "subjects", courseId |-> "obs"]

(***************************************************************************)
(* C18. After a successful load the navigation stack is empty exactly when *)
(* the Courses view is on show: no Courses state is ever on the stack, and *)
(* the Courses view is never drawn over a stack that is not empty.         *)
(***************************************************************************)
C18_EmptyIffCourses ==
    data # NoData =>
        /\ (navigationStack = << >>) <=> (view = [type |-> "courses"])
        /\ \A i \in 1..Len(navigationStack) :
              navigationStack[i].type # "courses"

\* The Courses view came back by the back button of the Subjects view of the
\* second course.
C18_Witness ==
    /\ data # NoData
    /\ lastEvent.on = "back"
    /\ prevStack = <<[type |-> "subjects", courseId |-> "obs"]>>
    /\ view = [type |-> "courses"]
    /\ navigationStack = << >>

C20_BackReachesCourses ==
    /\ [][(lastEvent'.on = "back" /\ pc' = pc /\ navigationStack # << >>) =>
             /\ Len(navigationStack') = Len(navigationStack) - 1
             /\ ~uncaught']_vars
    /\ [][(lastEvent'.on = "back" /\ pc' = pc) =>
             (navigationStack' = << >>) <=> (Len(navigationStack) <= 1)]_vars
    /\ [](data # NoData =>
             IF navigationStack = << >>
             THEN view = [type |-> "courses"]
             ELSE /\ view.type # "courses"
                  /\ [on |-> "back"] \in listeners)
    /\ (pc = "backing") ~> (view = [type |-> "courses"])

\* The last press of the user who only presses back has drawn the Courses
\* view.
C20_Witness ==
    /\ pc = "backing"
    /\ lastEvent.on = "back"
    /\ Len(prevStack) = 1
    /\ view = [type |-> "courses"]
    /\ navigationStack = << >>

====
